---- MODULE Spec2Model ----
(***************************************************************************)
(* Model of src/server.js: the claim / progression engine of the           *)
(* atomicfizz-caps server (players map, loot, encounters, leveling,        *)
(* equip, craft, faction reputation, the asynchronous claim handler).      *)
(*                                                                         *)
(* Conventions.                                                            *)
(*  - JavaScript arrays are sequences; array index k of the source is      *)
(*    position k+1 here.  An index past the end is kept as such, so that   *)
(*    Array.prototype.splice on it removes nothing, as in the source.      *)
(*  - An item is an object with an identity: ref is the identity of the    *)
(*    object (a fresh number per created object), so that a gear slot      *)
(*    holding a reference can be compared with the objects of the          *)
(*    inventory.                                                           *)
(*  - stats is modelled by its only field that the code reads, defense     *)
(*    (0 when the stat payload has no defense key).                        *)
(*  - Date.now() is the variable clock, a non-decreasing millisecond       *)
(*    counter.  Math.random() is an input of the action that uses it.      *)
(***************************************************************************)
EXTENDS Integers, Sequences, FiniteSets, TLC

VARIABLES
    players,       \* the players map of server.js:14, wallet -> Player
    clock,         \* Date.now()
    simulateMint,  \* SIMULATE_MINT of server.js:9, fixed at start-up
    claims,        \* POST /claim-survival invocations: position and locals
    nextRef,       \* identity given to the next created item object
    passes,        \* history: per wallet, the times of the claims that passed the cooldown check
    adjusted,      \* history: number of reputation changes made by POST /factions/adjust
    last           \* the handler step that ran last: inputs, player before, response

vars == <<players, clock, simulateMint, claims, nextRef, passes, adjusted, last>>

-----------------------------------------------------------------------------
(* Bounds of the model *)

MaxTicks == 1         \* the clock runs from StartTime to StartTime + MaxTicks
MaxClaims == 2        \* claims of one wallet that may pass the cooldown check, after the first
MaxAdjust == 1        \* reputation changes by POST /factions/adjust
StartTime == 17       \* Date.now() when the model starts
HourTicks == 6        \* clock ticks in an hour of Date
RandDen == 1000       \* Math.random() is drawn as k / RandDen
MaxCraftInv == 5      \* longest inventory handed to craftItem in SpecCraft
MaxLvl == 3           \* highest starting level handed to grantCapsAndXp in SpecGrant
MaxGearInv == 5       \* longest starting inventory in SpecGear
MaxRep == 110         \* highest brotherhood reputation handed to rollLoot in SpecLoot
MinRepBelow == 5      \* reputations down to -MinRepBelow are handed to rollLoot in SpecLoot
MaxXpGrant == 760     \* largest experience grant handed to grantCapsAndXp in SpecGrant
COOLDOWN_MS == 2      \* the configured process.env.COOLDOWN_MS (line 10), in clock ticks

(* Constants of the program *)

BaseCaps == 12
ClaimXp == 18
XpPerLevel == 100
LevelHpStep == 10
BaseMaxHp == 100
RaiderDamage == 12
AidHeal == 12
RaiderRep == 4
BrotherhoodRep == 6
VaultRep == 5
PatrolBonusCaps == 20
SkirmishRiskHp == 10
RareBonus == 24
LegendaryBonus == 60

Wallets == {"w1"}

Min(a, b) == IF a <= b THEN a ELSE b
Max(a, b) == IF a >= b THEN a ELSE b

-----------------------------------------------------------------------------
(* Items, loot tables, recipes *)

NoStamp == -1

\* Identifier of a loot item is the entry's id; of a crafted item `${recipeId}_${Date.now()}`.
ItemId(base, stamp) == [base |-> base, stamp |-> stamp]

LootEntry(id, type, weight, rarity, defense) ==
    [id |-> id, type |-> type, weight |-> weight, rarity |-> rarity, defense |-> defense]

locations ==
    [ nukaTown |->
        [ id |-> "nukaTown", radiusM |-> 150,
          lootTable |-> << LootEntry("scrap_metal", "material", 50, "common", 0),
                           LootEntry("ammo_pack", "consumable", 30, "uncommon", 0),
                           LootEntry("rare_tech", "material", 15, "rare", 0),
                           LootEntry("legendary_relic", "artifact", 5, "legendary", 0) >> ],
      vault13 |->
        [ id |-> "vault13", radiusM |-> 100,
          lootTable |-> << LootEntry("duct_tape", "material", 40, "common", 0),
                           LootEntry("med_x", "consumable", 25, "uncommon", 0),
                           LootEntry("laser_rifle", "weapon", 20, "rare", 0),
                           LootEntry("t45_power_armor", "body", 15, "legendary", 30) >> ] ]

LocationIds == DOMAIN locations

\* The item object a claim builds from a loot entry (lootItem, lines 335-343).
LootItem(e, ref) ==
    [id |-> ItemId(e.id, NoStamp), type |-> e.type, rarity |-> e.rarity,
     defense |-> e.defense, nftMint |-> "none", ref |-> ref]

\* maybeMintNftForLoot(loot, wallet): the nftMint of the value returned ("none" for
\* null), under SIMULATE_MINT = simulate.
maybeMintNftForLoot(e, simulate) ==
    IF e.rarity # "rare" /\ e.rarity # "legendary" THEN "none"
    ELSE IF simulate THEN "SIMULATED_NFT"
    ELSE "none"

\* An empty gear slot (null).
NoItem == [ref |-> 0]

\* recipes of craftItem; requires lists the materials in Object.keys order.
recipes ==
    [ scav_helmet |->
        [ type |-> "head", rarity |-> "uncommon", defense |-> 5,
          requires |-> << [mat |-> "scrap_metal", qty |-> 3],
                          [mat |-> "duct_tape", qty |-> 1] >> ],
      makeshift_rifle |->
        [ type |-> "weapon", rarity |-> "uncommon", defense |-> 0,
          requires |-> << [mat |-> "scrap_metal", qty |-> 2],
                          [mat |-> "rare_tech", qty |-> 1] >> ] ]

\* Property names every object literal inherits from Object.prototype: recipes[k]
\* and locations[k] are a truthy value (a function or the prototype object) for
\* these k, with no requires, type, rarity, stats, lootTable, lat, lng or radiusM
\* property.
ObjectPrototypeKeys ==
    {"constructor", "toString", "toLocaleString", "valueOf", "hasOwnProperty",
     "isPrototypeOf", "propertyIsEnumerable", "__proto__",
     "__defineGetter__", "__defineSetter__", "__lookupGetter__", "__lookupSetter__"}

Undefined == [undefined |-> TRUE]

\* recipes[recipeId] (line 162).
RecipeLookup(recipeId) ==
    IF recipeId \in DOMAIN recipes THEN recipes[recipeId]
    ELSE IF recipeId \in ObjectPrototypeKeys
         THEN [type |-> "undefined", rarity |-> "undefined", defense |-> 0, requires |-> << >>]
         ELSE Undefined

\* A value inherited from Object.prototype (a function, or the prototype object):
\* truthy, with none of the properties of a recipe, a location or a player.
Inherited == [inherited |-> TRUE]

\* A TypeError thrown on reading a property of undefined.
Thrown == [thrown |-> "TypeError"]

\* locations[locationId] (line 302): a location, an inherited value, or undefined.
LocationLookup(locationId) ==
    IF locationId \in LocationIds THEN locations[locationId]
    ELSE IF locationId \in ObjectPrototypeKeys THEN Inherited
    ELSE Undefined

-----------------------------------------------------------------------------
(* Players *)

NoPlayer == [absent |-> TRUE]

NewPlayer(wallet) ==
    [ wallet |-> wallet, caps |-> 0, lvl |-> 1, xp |-> 0, hp |-> 100, max_hp |-> 100,
      lastClaim |-> 0,
      factionRep |-> [brotherhood |-> 0, raiders |-> 0, vault |-> 0],
      inventory |-> << >>,
      gear |-> [head |-> NoItem, body |-> NoItem, weapon |-> NoItem, accessory |-> NoItem],
      cooldowns |-> [claim |-> 0] ]

\* ensurePlayer: the players map after the call.  players is an object literal
\* (line 14), so for a wallet that is a name of Object.prototype the test of line 74
\* finds the inherited value and nothing is created.
ensurePlayer(ps, wallet) ==
    IF wallet \in ObjectPrototypeKeys THEN ps
    ELSE IF ps[wallet] = NoPlayer THEN [ps EXCEPT ![wallet] = NewPlayer(wallet)]
    ELSE ps

\* players[wallet] (lines 74 and 89) in the map ps: the value ensurePlayer returns
\* when ps is the map after the call.
PlayerOf(ps, wallet) ==
    IF wallet \in ObjectPrototypeKeys THEN Inherited ELSE ps[wallet]

-----------------------------------------------------------------------------
(* grantCapsAndXp *)

RECURSIVE LevelLoopStrict(_, _, _)
\* LevelLoop with the loop test written xp > nextLvXp.
LevelLoopStrict(player, nextLvXp, leveledUp) ==
    IF player.xp > nextLvXp
    THEN LevelLoopStrict([player EXCEPT !.xp = @ - nextLvXp,
                                        !.lvl = @ + 1,
                                        !.max_hp = @ + LevelHpStep,
                                        !.hp = player.max_hp + LevelHpStep],
                         nextLvXp, TRUE)
    ELSE [player |-> player, leveledUp |-> leveledUp]

\* LevelLoop with the while written as an if: one level-up at most.
LevelLoopOnce(player, nextLvXp, leveledUp) ==
    IF player.xp >= nextLvXp
    THEN [player |-> [player EXCEPT !.xp = @ - nextLvXp,
                                    !.lvl = @ + 1,
                                    !.max_hp = @ + LevelHpStep,
                                    !.hp = player.max_hp + LevelHpStep],
          leveledUp |-> TRUE]
    ELSE [player |-> player, leveledUp |-> leveledUp]

RECURSIVE LevelLoopRecomputed(_, _, _)
\* LevelLoop with the threshold computed again from the level on every iteration.
LevelLoopRecomputed(player, nextLvXp, leveledUp) ==
    IF player.xp >= player.lvl * XpPerLevel
    THEN LevelLoopRecomputed([player EXCEPT !.xp = @ - player.lvl * XpPerLevel,
                                            !.lvl = @ + 1,
                                            !.max_hp = @ + LevelHpStep,
                                            !.hp = player.max_hp + LevelHpStep],
                             nextLvXp, TRUE)
    ELSE [player |-> player, leveledUp |-> leveledUp]

RECURSIVE LevelLoop(_, _, _)
\* The while loop of lines 98-104; nextLvXp was computed once, before the loop.
LevelLoop(player, nextLvXp, leveledUp) ==
    IF player.xp >= nextLvXp
    THEN LevelLoop([player EXCEPT !.xp = @ - nextLvXp,
                                  !.lvl = @ + 1,
                                  !.max_hp = @ + LevelHpStep,
                                  !.hp = player.max_hp + LevelHpStep],
                   nextLvXp, TRUE)
    ELSE [player |-> player, leveledUp |-> leveledUp]

grantCapsAndXp(player, capsEarned, xpEarned) ==
    LET p1 == [player EXCEPT !.caps = @ + capsEarned, !.xp = @ + xpEarned]
        nextLvXp == p1.lvl * XpPerLevel
    IN  LevelLoop(p1, nextLvXp, FALSE)

-----------------------------------------------------------------------------
(* craftItem *)

\* bag[matId] of lines 167-171: the positions of the items whose id is matId, ascending.
Bag(inventory, matId) ==
    SelectSeq([i \in 1..Len(inventory) |-> i],
              LAMBDA i : inventory[i].id = ItemId(matId, NoStamp))

\* inventory.splice(idx, 1): removes the element at idx, nothing when idx is past the end.
Splice(inventory, idx) ==
    IF idx > Len(inventory) THEN inventory
    ELSE [i \in 1..(Len(inventory) - 1) |->
              IF i < idx THEN inventory[i] ELSE inventory[i + 1]]

RECURSIVE ConsumeMat(_, _, _)
\* The inner loop of lines 179-182 for one material: n times pop the last recorded
\* position and splice it out.  pop() of an empty array is undefined, and
\* splice(undefined, 1) removes the first element.
ConsumeMat(inventory, idxs, n) ==
    IF n = 0 THEN inventory
    ELSE IF Len(idxs) = 0
         THEN ConsumeMat(Splice(inventory, 1), idxs, n - 1)
         ELSE ConsumeMat(Splice(inventory, idxs[Len(idxs)]),
                         SubSeq(idxs, 1, Len(idxs) - 1), n - 1)

RECURSIVE ConsumeAll(_, _, _, _)
\* The outer loop of lines 178-183: the positions were recorded in original, the
\* inventory as it was before anything was removed.
ConsumeAll(inventory, original, requires, k) ==
    IF k > Len(requires) THEN inventory
    ELSE ConsumeAll(ConsumeMat(inventory, Bag(original, requires[k].mat), requires[k].qty),
                    original, requires, k + 1)

RECURSIVE FirstShortfall(_, _, _)
\* The check loop of lines 172-175: position in requires of the first material the
\* inventory holds too few of, 0 when there is none.
FirstShortfall(inventory, requires, k) ==
    IF k > Len(requires) THEN 0
    ELSE IF Len(Bag(inventory, requires[k].mat)) < requires[k].qty THEN k
    ELSE FirstShortfall(inventory, requires, k + 1)

\* craftItem(player, recipeId) at time now, the crafted object getting identity ref:
\* the player after the call and the value returned.
craftItem(player, recipeId, now, ref) ==
    LET recipe == RecipeLookup(recipeId) IN
    IF recipe = Undefined
    THEN [player |-> player, result |-> [error |-> "Unknown recipe"]]
    ELSE IF player = Inherited
    THEN \* player.inventory is undefined: forEach of line 168 throws.
         [player |-> player, result |-> Thrown]
    ELSE
      LET short == FirstShortfall(player.inventory, recipe.requires, 1) IN
      IF short # 0
      THEN [player |-> player,
            result |-> [error |-> "Missing",
                        matId |-> recipe.requires[short].mat,
                        count |-> recipe.requires[short].qty
                                  - Len(Bag(player.inventory, recipe.requires[short].mat))]]
      ELSE
        LET crafted == [id |-> ItemId(recipeId, now), type |-> recipe.type,
                        rarity |-> recipe.rarity, defense |-> recipe.defense,
                        nftMint |-> "none", ref |-> ref]
            consumed == ConsumeAll(player.inventory, player.inventory, recipe.requires, 1)
        IN  [player |-> [player EXCEPT !.inventory = Append(consumed, crafted)],
             result |-> [success |-> TRUE, item |-> crafted]]


-----------------------------------------------------------------------------
(* rollLoot *)

\* Values k of Math.random() = k / RandDen: the ends of the model's range and both
\* sides of every boundary between two entries of the two loot tables.
RandomDraws == {0, 400, 401, 500, 501, 650, 651, 800, 801, 850, 851, 950, 951, 999}

\* RepBonus without the cap.
RepBonusUncapped(player) == player.factionRep.brotherhood * 2

\* repBonus of line 49 in thousandths: Math.min(0.20, brotherhood * 0.002).
RepBonus(player) == Min(200, player.factionRep.brotherhood * 2)

\* Effective weight of lines 50-53, in thousandths: e.weight * (1 + bonus).
AdjustedWeight(e, player) ==
    LET bonus == IF e.rarity = "rare" \/ e.rarity = "legendary" THEN RepBonus(player) ELSE 0
    IN  e.weight * (1000 + bonus)

RECURSIVE SumWeights(_, _, _)
SumWeights(lootTable, player, k) ==
    IF k > Len(lootTable) THEN 0
    ELSE AdjustedWeight(lootTable[k], player) + SumWeights(lootTable, player, k + 1)

\* total of line 54, in thousandths.
TotalWeight(lootTable, player) == SumWeights(lootTable, player, 1)

RECURSIVE LootWalk(_, _, _, _)
\* The loop of lines 56-58 on r scaled by RandDen: position of the entry returned,
\* 0 for null.
LootWalk(lootTable, player, r, k) ==
    IF k > Len(lootTable) THEN 0
    ELSE LET rest == r - RandDen * AdjustedWeight(lootTable[k], player)
         IN  IF rest <= 0 THEN k ELSE LootWalk(lootTable, player, rest, k + 1)

\* rollLoot(lootTable, player) with Math.random() = rnd / RandDen.
rollLoot(lootTable, player, rnd) ==
    LootWalk(lootTable, player, rnd * TotalWeight(lootTable, player), 1)

-----------------------------------------------------------------------------
(* rollEncounter *)

\* The bands of roll: [0, .18) raider, [.18, .28) patrol, [.28, .34) aid, else none.
EncounterBands == {"raider", "patrol", "aid", "none"}

\* rollEncounter(player) with roll in the given band: the player after, the text returned.
rollEncounter(player, band) ==
    IF band = "raider"
    THEN [player |-> [player EXCEPT !.hp = Max(0, @ - RaiderDamage),
                                    !.factionRep.raiders = @ + RaiderRep],
          text |-> "Raider ambush! Lost 12 HP."]
    ELSE IF band = "patrol"
    THEN [player |-> [player EXCEPT !.factionRep.brotherhood = @ + BrotherhoodRep],
          text |-> "Brotherhood patrol! Gained 6 reputation."]
    ELSE IF band = "aid"
    THEN [player |-> [player EXCEPT !.hp = Min(player.max_hp, @ + AidHeal),
                                    !.factionRep.vault = @ + VaultRep],
          text |-> "Vault Dweller aid! Restored 12 HP."]
    ELSE [player |-> player, text |-> "null"]

-----------------------------------------------------------------------------
(* equipItem *)

GearSlots == {"head", "body", "weapon", "accessory"}

\* inventory.find(i => i.id === itemId): position of the first match, 0 when none.
FindItem(inventory, itemId) ==
    IF \E i \in 1..Len(inventory) : inventory[i].id = itemId
    THEN CHOOSE i \in 1..Len(inventory) :
             /\ inventory[i].id = itemId
             /\ \A j \in 1..(i - 1) : inventory[j].id # itemId
    ELSE 0

\* equipItem without the clamp of line 139.
equipItemNoClamp(player, itemId) ==
    IF player = Inherited
    THEN \* player.inventory is undefined: find of line 128 throws.
         [player |-> player, result |-> Thrown]
    ELSE
    LET pos == FindItem(player.inventory, itemId) IN
    IF pos = 0 THEN [player |-> player, result |-> [error |-> "Item not found"]]
    ELSE
      LET item == player.inventory[pos] IN
      IF item.type \notin GearSlots
      THEN [player |-> player, result |-> [error |-> "Item is not equippable"]]
      ELSE
        LET p1 == [player EXCEPT !.gear[item.type] = item]
            p2 == IF item.defense # 0
                  THEN [p1 EXCEPT !.max_hp = BaseMaxHp + item.defense]
                  ELSE p1
        IN  [player |-> p2, result |-> [success |-> TRUE, slot |-> item.type, item |-> item]]

\* equipItem that takes the equipped item out of the inventory.
equipItemConsuming(player, itemId) ==
    IF player = Inherited
    THEN \* player.inventory is undefined: find of line 128 throws.
         [player |-> player, result |-> Thrown]
    ELSE
    LET pos == FindItem(player.inventory, itemId) IN
    IF pos = 0 THEN [player |-> player, result |-> [error |-> "Item not found"]]
    ELSE
      LET item == player.inventory[pos] IN
      IF item.type \notin GearSlots
      THEN [player |-> player, result |-> [error |-> "Item is not equippable"]]
      ELSE
        LET p1 == [player EXCEPT !.gear[item.type] = item,
                                 !.inventory = [i \in 1..(Len(@) - 1) |->
                                                    IF i < pos THEN @[i] ELSE @[i + 1]]]
            p2 == IF item.defense # 0
                  THEN [p1 EXCEPT !.max_hp = BaseMaxHp + item.defense,
                                  !.hp = Min(p1.hp, BaseMaxHp + item.defense)]
                  ELSE p1
        IN  [player |-> p2, result |-> [success |-> TRUE, slot |-> item.type, item |-> item]]

\* equipItem(player, itemId): the player after the call and the value returned.
equipItem(player, itemId) ==
    IF player = Inherited
    THEN \* player.inventory is undefined: find of line 128 throws.
         [player |-> player, result |-> Thrown]
    ELSE
    LET pos == FindItem(player.inventory, itemId) IN
    IF pos = 0 THEN [player |-> player, result |-> [error |-> "Item not found"]]
    ELSE
      LET item == player.inventory[pos] IN
      IF item.type \notin GearSlots
      THEN [player |-> player, result |-> [error |-> "Item is not equippable"]]
      ELSE
        LET p1 == [player EXCEPT !.gear[item.type] = item]
            p2 == IF item.defense # 0
                  THEN [p1 EXCEPT !.max_hp = BaseMaxHp + item.defense,
                                  !.hp = Min(p1.hp, BaseMaxHp + item.defense)]
                  ELSE p1
        IN  [player |-> p2, result |-> [success |-> TRUE, slot |-> item.type, item |-> item]]


-----------------------------------------------------------------------------
(* Turns of the event loop *)

ReqIds == {1, 2}

\* last while the event loop waits for the next event.
NoTurn == [op |-> "none"]

\* What a handler step leaves in last until the turn ends: the endpoint, the
\* request's wallet and other inputs, the player the handler found (after
\* ensurePlayer), the HTTP status (0 while the response is still to come) and the body.
Response(op, wallet, arg, pre, status, body) ==
    [op |-> op, wallet |-> wallet, arg |-> arg, pre |-> pre, status |-> status, body |-> body]

\* A handler starts when the event loop is idle.  A continuation of a claim that
\* was suspended at the await of line 345 is a microtask (maybeMintNftForLoot never
\* waits for I/O): it runs before the event loop takes the next event.
NoMicrotaskPending == \A r \in ReqIds : claims[r].pc # "nft"
LoopIdle == last = NoTurn /\ NoMicrotaskPending

\* What becomes of a rejected promise of the async claim handler, which the source
\* neither catches nor observes (no process.on("unhandledRejection")): the
\* runtime ends the process, or ignores the rejection (no response is sent), or
\* the framework catches it and answers 500.
RejectionOutcomes == {"exit", "ignored", "caught"}

\* The process has ended: no turn follows.
ProcessExited ==
    /\ last.op \in {"claim-throw", "claim-throw-player"}
    /\ last.body.outcome = "exit"

\* The handler has returned, or is suspended at an await: the turn ends.
EndTurn ==
    /\ last # NoTurn
    /\ ~ProcessExited
    /\ last' = NoTurn
    /\ UNCHANGED <<players, clock, simulateMint, claims, nextRef, passes, adjusted>>

\* Date.now() advances.
Tick ==
    /\ last = NoTurn
    /\ clock < StartTime + MaxTicks
    /\ clock' = clock + 1
    /\ UNCHANGED <<players, simulateMint, claims, nextRef, passes, adjusted, last>>

\* Length of the inventory of a wallet (0 while the player does not exist yet).
InvLen(wallet) ==
    IF players[wallet] = NoPlayer THEN 0 ELSE Len(players[wallet].inventory)

-----------------------------------------------------------------------------
(* Handlers that run to completion in one turn *)

\* Recipes asked of craftItem: the recipes, the empty string, a name that is no
\* property of recipes, and two of the names recipes inherits.
RecipeInputs == DOMAIN recipes \cup {"", "power_fist", "constructor", "__proto__"}

\* POST /craft (lines 262-269).  An error thrown by the handler is answered with
\* status 500 by the framework.
Craft(wallet, recipeId) ==
    /\ LoopIdle
    /\ IF wallet = "" \/ recipeId = ""
       THEN /\ last' = Response("craft", wallet, recipeId, NoPlayer, 400,
                                [error |-> "Missing wallet or recipeId"])
            /\ UNCHANGED <<players, nextRef>>
       ELSE LET ps == ensurePlayer(players, wallet)
                player == PlayerOf(ps, wallet)
                out == craftItem(player, recipeId, clock, nextRef)
                failed == "error" \in DOMAIN out.result
                thrown == out.result = Thrown
            IN  /\ players' = IF player = Inherited THEN ps
                               ELSE [ps EXCEPT ![wallet] = out.player]
                /\ nextRef' = IF failed \/ thrown THEN nextRef ELSE nextRef + 1
                /\ last' = Response("craft", wallet, recipeId, player,
                                    IF thrown THEN 500 ELSE IF failed THEN 400 ELSE 200,
                                    out.result)
    /\ UNCHANGED <<clock, simulateMint, claims, passes, adjusted>>

\* A direct call of grantCapsAndXp(players[wallet], capsEarned, xpEarned).
GrantCall(wallet, capsEarned, xpEarned) ==
    /\ LoopIdle
    /\ players[wallet] # NoPlayer
    /\ LET out == grantCapsAndXp(players[wallet], capsEarned, xpEarned)
       IN  /\ players' = [players EXCEPT ![wallet] = out.player]
           /\ last' = Response("grant", wallet, [caps |-> capsEarned, xp |-> xpEarned],
                               players[wallet], 200, [leveledUp |-> out.leveledUp])
    /\ UNCHANGED <<clock, simulateMint, claims, nextRef, passes, adjusted>>

\* POST /equip (lines 252-259).
Equip(wallet, itemId) ==
    /\ LoopIdle
    /\ IF wallet = "" \/ itemId = ItemId("", NoStamp)
       THEN /\ last' = Response("equip", wallet, itemId, NoPlayer, 400,
                                [error |-> "Missing wallet or itemId"])
            /\ UNCHANGED players
       ELSE LET ps == ensurePlayer(players, wallet)
                player == PlayerOf(ps, wallet)
                out == equipItem(player, itemId)
            IN  /\ players' = IF player = Inherited THEN ps
                               ELSE [ps EXCEPT ![wallet] = out.player]
                /\ last' = Response("equip", wallet, itemId, player,
                                    IF out.result = Thrown THEN 500
                                    ELSE IF "error" \in DOMAIN out.result THEN 400 ELSE 200,
                                    out.result)
    /\ UNCHANGED <<clock, simulateMint, claims, nextRef, passes, adjusted>>

Factions == {"brotherhood", "raiders", "vault"}

\* POST /factions/adjust (lines 277-285).
FactionsAdjust(wallet, faction, delta) ==
    /\ LoopIdle
    /\ LET ps == ensurePlayer(players, wallet) IN
       IF faction \notin Factions
       THEN /\ players' = ps
            /\ adjusted' = adjusted
            /\ last' = Response("adjust", wallet, [faction |-> faction, delta |-> delta],
                                PlayerOf(ps, wallet), 400, [error |-> "Invalid faction"])
       ELSE IF PlayerOf(ps, wallet) = Inherited
       THEN \* p.factionRep is undefined: line 283 throws.
            /\ players' = ps
            /\ adjusted' = adjusted
            /\ last' = Response("adjust", wallet, [faction |-> faction, delta |-> delta],
                                Inherited, 500, Thrown)
       ELSE /\ adjusted < MaxAdjust
            /\ players' = [ps EXCEPT ![wallet].factionRep[faction] = @ + delta]
            /\ adjusted' = adjusted + 1
            /\ last' = Response("adjust", wallet, [faction |-> faction, delta |-> delta],
                                ps[wallet], 200,
                                [faction |-> faction,
                                 value |-> ps[wallet].factionRep[faction] + delta])
    /\ UNCHANGED <<clock, simulateMint, claims, nextRef, passes>>

\* GET /player/:wallet, /balance/:wallet, /inventory/:wallet, /factions/:wallet
\* (lines 234-249, 272-275): each calls ensurePlayer and reads the player.
GetPlayer(wallet) ==
    /\ LoopIdle
    /\ LET ps == ensurePlayer(players, wallet) IN
          /\ players' = ps
          /\ last' = Response("get", wallet, "player", PlayerOf(ps, wallet), 200,
                              PlayerOf(ps, wallet))
    /\ UNCHANGED <<clock, simulateMint, claims, nextRef, passes, adjusted>>

\* new Date().getUTCHours() at time now (line 290).
UtcHour(now) == (now \div HourTicks) % 24

\* The event of lines 291-293 at time now.
ActiveEvent(now) ==
    IF UtcHour(now) % 2 = 0
    THEN [name |-> "Brotherhood Patrol", locationId |-> "vault13",
          bonusCaps |-> PatrolBonusCaps]
    ELSE [name |-> "Raider Skirmish", locationId |-> "nukaTown",
          riskHP |-> SkirmishRiskHp]

\* GET /events (lines 288-295); nextCheckAt is ten minutes, a sixth of an hour, later.
Events ==
    /\ LoopIdle
    /\ last' = Response("events", "", "events", NoPlayer, 200,
                        [active |-> ActiveEvent(clock),
                         nextCheckAt |-> clock + HourTicks \div 6])
    /\ UNCHANGED <<players, clock, simulateMint, claims, nextRef, passes, adjusted>>

-----------------------------------------------------------------------------
(* POST /claim-survival (lines 298-389) *)

IdleClaim == [pc |-> "idle"]

NoCoord == -1

\* distanceM(lat, lng, undefined, undefined) (lines 63-70): NaN.
NaNDist == -2

\* The request carries no coordinate, or one whose distanceM to the location is d
\* metres: the location's radius (inside) or one metre more (outside); to a value
\* without lat and lng the distance is NaN.
GeoInputs(locationId) ==
    IF locationId \in LocationIds
    THEN {NoCoord, locations[locationId].radiusM, locations[locationId].radiusM + 1}
    ELSE IF locationId \in ObjectPrototypeKeys THEN {NoCoord, NaNDist}
    ELSE {NoCoord}

EventNames == {"none", "Brotherhood Patrol", "Raider Skirmish"}

\* Lines 324-327.
CapsMod(eventName, locationId) ==
    IF eventName = "Brotherhood Patrol" /\ locationId = "vault13" THEN PatrolBonusCaps ELSE 0

HpRisk(eventName, locationId) ==
    IF eventName = "Raider Skirmish" /\ locationId = "nukaTown" THEN SkirmishRiskHp ELSE 0

\* CommitCooldown with the assignment left out.
CommitNothing(player, now) == player

\* Line 329: player.cooldowns.claim = now.
CommitCooldown(player, now) == [player EXCEPT !.cooldowns.claim = now]

\* CooldownActive with the test written <=.
CooldownActiveInclusive(player, now) == now - player.cooldowns.claim <= COOLDOWN_MS

\* Line 310, with last = player.cooldowns.claim || 0.
CooldownActive(player, now) == now - player.cooldowns.claim < COOLDOWN_MS

\* Lines 316-318; NaN > x is false for every x.
OutOfRange(dist, loc) == dist # NoCoord /\ dist # NaNDist /\ dist > loc.radiusM

\* ClaimGate with the commit of the cooldown moved before the geofence check.
ClaimGateCommitFirst(player, now, dist, loc) ==
    IF CooldownActive(player, now) THEN [status |-> 429, player |-> player]
    ELSE IF OutOfRange(dist, loc)
         THEN [status |-> 403, player |-> CommitCooldown(player, now)]
         ELSE [status |-> 0, player |-> CommitCooldown(player, now)]

\* Lines 308-329: the cooldown check, the geofence check and the commit: the status
\* of the rejection (0 when the claim goes on) and the player after.
ClaimGate(player, now, dist, loc) ==
    IF CooldownActive(player, now) THEN [status |-> 429, player |-> player]
    ELSE IF OutOfRange(dist, loc) THEN [status |-> 403, player |-> player]
    ELSE [status |-> 0, player |-> CommitCooldown(player, now)]

\* RarityBonus with the two bonuses exchanged.
RarityBonusSwapped(rarity) ==
    IF rarity = "legendary" THEN RareBonus ELSE IF rarity = "rare" THEN LegendaryBonus ELSE 0

\* Line 358.
RarityBonus(rarity) ==
    IF rarity = "legendary" THEN LegendaryBonus ELSE IF rarity = "rare" THEN RareBonus ELSE 0

\* The player summary of the response (lines 375-385).
Summary(player) ==
    [wallet |-> player.wallet, caps |-> player.caps, lvl |-> player.lvl, xp |-> player.xp,
     hp |-> player.hp, max_hp |-> player.max_hp, factionRep |-> player.factionRep,
     inventoryCount |-> Len(player.inventory), gear |-> player.gear]

\* res.json of lines 368-388, for the claim c whose await returned chain.
ClaimResponse(c, player, chain) ==
    [success |-> TRUE, location |-> c.locationId, loot |-> c.lootItem,
     encounter |-> c.encounter, capsEarned |-> c.capsEarned, leveledUp |-> c.leveledUp,
     player |-> Summary(player), chain |-> chain,
     cooldownEndsAt |-> player.cooldowns.claim + COOLDOWN_MS]

\* maybeMintCapsOnChain with a catch that returns null.
MintErrorSwallowed(outcome) ==
    IF outcome = "minted" THEN [tx |-> "sig"] ELSE [null |-> TRUE]

\* maybeMintCapsOnChain when SIMULATE_MINT is off: the transaction, or the error
\* object the catch of lines 216-218 builds when anything in the try block throws.
maybeMintCapsOnChain(outcome) ==
    IF outcome = "minted" THEN [tx |-> "sig"] ELSE [error |-> "Mint failed"]

MintOutcomes == {"minted", "failed"}

\* chain of the response when SIMULATE_MINT is on (line 363).
NullChain == [null |-> TRUE]

\* A TypeError thrown in the claim handler rejects its promise; ps is the players map
\* as the handler left it.  When the process ends, the players map and the claims
\* that wait for a settlement end with it.
ClaimRejected(op, wallet, arg, pre, ps, outcome) ==
    /\ last' = Response(op, wallet, arg, pre, IF outcome = "caught" THEN 500 ELSE 0,
                        [thrown |-> "TypeError", outcome |-> outcome])
    /\ IF outcome = "exit"
       THEN /\ players' = [w \in Wallets |-> NoPlayer]
            /\ claims' = [q \in ReqIds |-> IdleClaim]
       ELSE /\ players' = ps
            /\ UNCHANGED claims

\* Lines 299-345: validation, cooldown check, geofence check, event modifiers, the
\* commit of the cooldown, the loot roll, up to the await of maybeMintNftForLoot.
\* For a locationId that locations inherits from Object.prototype the lookup of
\* line 302 is truthy and the handler goes on until rollLoot throws; for a wallet
\* that players inherits, player.cooldowns is undefined and line 309 throws.
ClaimStart(r, wallet, locationId, eventName) ==
    /\ LoopIdle
    /\ claims[r].pc = "idle"
    /\ \A q \in ReqIds : q < r => claims[q].pc # "idle"
    /\ IF wallet = "" \/ locationId = ""
       THEN /\ last' = Response("claim", wallet, [locationId |-> locationId], NoPlayer, 400,
                                [error |-> "Missing wallet or locationId"])
            /\ UNCHANGED <<players, claims, nextRef, passes>>
       ELSE IF LocationLookup(locationId) = Undefined
       THEN /\ last' = Response("claim", wallet, [locationId |-> locationId], NoPlayer, 404,
                                [error |-> "Unknown location"])
            /\ UNCHANGED <<players, claims, nextRef, passes>>
       ELSE IF PlayerOf(players, wallet) = Inherited
       THEN \E outcome \in RejectionOutcomes :
                /\ ClaimRejected("claim-throw-player", wallet,
                                 [locationId |-> locationId, now |-> clock, req |-> r],
                                 Inherited, players, outcome)
                /\ UNCHANGED <<nextRef, passes>>
       ELSE
         LET ps == ensurePlayer(players, wallet)
             player == ps[wallet]
             loc == LocationLookup(locationId)
             now == clock
             \* The inputs read up to a rejection, and up to the loot roll.
             checked == [locationId |-> locationId, now |-> now, req |-> r]
             arg == [locationId |-> locationId, now |-> now, req |-> r,
                     eventName |-> eventName]
         IN
         \E dist \in GeoInputs(locationId) :
           LET gate == ClaimGate(player, now, dist, loc) IN
           IF gate.status = 429
           THEN /\ players' = [ps EXCEPT ![wallet] = gate.player]
                /\ last' = Response("claim", wallet, checked, player, 429,
                                    [error |-> "Cooldown active",
                                     remainingMs |-> COOLDOWN_MS - (now - player.cooldowns.claim)])
                /\ UNCHANGED <<claims, nextRef, passes>>
           ELSE IF gate.status = 403
           THEN /\ players' = [ps EXCEPT ![wallet] = gate.player]
                /\ last' = Response("claim", wallet, checked, player, 403,
                                    [error |-> "Out of range", distanceM |-> dist,
                                     allowedM |-> loc.radiusM])
                /\ UNCHANGED <<claims, nextRef, passes>>
           ELSE IF loc = Inherited
           THEN \* rollLoot(undefined, player) throws a TypeError at line 50, after the
                \* commit of line 329.
                /\ Len(passes[wallet]) <= MaxClaims
                /\ passes' = [passes EXCEPT ![wallet] = Append(@, now)]
                /\ \E outcome \in RejectionOutcomes :
                       ClaimRejected("claim-throw", wallet, checked, player,
                                     [ps EXCEPT ![wallet] = gate.player], outcome)
                /\ UNCHANGED nextRef
           ELSE \E rnd \in RandomDraws :
                /\ Len(passes[wallet]) <= MaxClaims
                /\ LET p1 == gate.player
                       k == rollLoot(loc.lootTable, p1, rnd)
                       lootItem == IF k = 0 THEN NoItem ELSE LootItem(loc.lootTable[k], nextRef)
                   IN  /\ players' = [ps EXCEPT ![wallet] = p1]
                       /\ nextRef' = IF k = 0 THEN nextRef ELSE nextRef + 1
                       /\ passes' = [passes EXCEPT ![wallet] = Append(@, now)]
                       /\ claims' = [claims EXCEPT ![r] =
                              [pc |-> "nft", wallet |-> wallet, locationId |-> locationId,
                               now |-> now, loot |-> k, lootItem |-> lootItem,
                               capsMod |-> CapsMod(eventName, locationId),
                               hpRisk |-> HpRisk(eventName, locationId)]]
                       /\ last' = Response("claim-start", wallet, arg, player, 0,
                                           [pending |-> TRUE])
    /\ UNCHANGED <<clock, simulateMint, adjusted>>

\* Lines 346-360 on the player as it is when the claim resumes: the loot is pushed,
\* the encounter rolled (its roll in the given band), the event's health risk and
\* the grant applied.  after is history: the summary of the player right after
\* the grant.
ClaimRewards(player, c, band, simulate) ==
    LET entry == locations[c.locationId].lootTable[c.loot]
        lootItem == IF c.loot = 0 THEN NoItem
                    ELSE [c.lootItem EXCEPT !.nftMint = maybeMintNftForLoot(entry, simulate)]
        p1 == IF c.loot = 0 THEN player
              ELSE [player EXCEPT !.inventory = Append(@, lootItem)]
        enc == rollEncounter(p1, band)
        p2 == IF c.hpRisk > 0
              THEN [enc.player EXCEPT !.hp = Max(0, @ - c.hpRisk)]
              ELSE enc.player
        rarityBonus == IF c.loot = 0 THEN 0 ELSE RarityBonus(entry.rarity)
        capsEarned == BaseCaps + rarityBonus + c.capsMod
        out == grantCapsAndXp(p2, capsEarned, ClaimXp)
    IN  [player |-> out.player,
         claim |-> [pc |-> "settle", wallet |-> c.wallet, locationId |-> c.locationId,
                    now |-> c.now, loot |-> c.loot, lootItem |-> lootItem,
                    capsMod |-> c.capsMod, hpRisk |-> c.hpRisk,
                    encounter |-> enc.text, capsEarned |-> capsEarned,
                    leveledUp |-> out.leveledUp,
                    after |-> Summary(out.player)]]

\* The claim resumes after the await of line 345 and runs to the await of line 365,
\* or to the response when SIMULATE_MINT is on.
ClaimAfterNft(r, band) ==
    /\ last = NoTurn
    /\ claims[r].pc = "nft"
    /\ LET c == claims[r]
           out == ClaimRewards(players[c.wallet], c, band, simulateMint)
           arg == [locationId |-> c.locationId, now |-> c.now, req |-> r, claim |-> out.claim]
       IN  /\ players' = [players EXCEPT ![c.wallet] = out.player]
           /\ IF simulateMint
              THEN /\ claims' = [claims EXCEPT ![r] = IdleClaim]
                   /\ last' = Response("claim", c.wallet, arg, players[c.wallet], 200,
                                       ClaimResponse(out.claim, out.player, NullChain))
              ELSE /\ claims' = [claims EXCEPT ![r] = out.claim]
                   /\ last' = Response("claim-rewards", c.wallet, arg, players[c.wallet], 0,
                                       [pending |-> TRUE])
    /\ UNCHANGED <<clock, simulateMint, nextRef, passes, adjusted>>

\* The claim resumes after the await of line 365 with the settlement's outcome and
\* responds (lines 368-388).
ClaimSettled(r, outcome) ==
    /\ LoopIdle
    /\ claims[r].pc = "settle"
    /\ LET c == claims[r]
           arg == [locationId |-> c.locationId, now |-> c.now, req |-> r, claim |-> c,
                   outcome |-> outcome]
       IN  /\ claims' = [claims EXCEPT ![r] = IdleClaim]
           /\ last' = Response("claim", c.wallet, arg, players[c.wallet], 200,
                               ClaimResponse(c, players[c.wallet],
                                             maybeMintCapsOnChain(outcome)))
    /\ UNCHANGED <<players, clock, simulateMint, nextRef, passes, adjusted>>

-----------------------------------------------------------------------------
(* Players with a history *)

RECURSIVE PlayerAfterClaims(_, _, _, _, _, _, _)
\* The player after claiming the entries of loot in order, one claim per cooldown
\* window, the last one at time tEnd, each with its encounter roll in band and an
\* event that risks hpRisk health: entry k is object k of the inventory
\* (lines 329-360).
PlayerAfterClaims(player, loot, k, tEnd, simulate, band, hpRisk) ==
    IF k > Len(loot) THEN player
    ELSE LET now == tEnd - (Len(loot) - k) * COOLDOWN_MS
             item == [LootItem(loot[k], k) EXCEPT
                         !.nftMint = maybeMintNftForLoot(loot[k], simulate)]
             p1 == [CommitCooldown(player, now) EXCEPT !.inventory = Append(@, item)]
             enc == rollEncounter(p1, band)
             p2 == IF hpRisk > 0
                   THEN [enc.player EXCEPT !.hp = Max(0, @ - hpRisk)]
                   ELSE enc.player
         IN  PlayerAfterClaims(
                 grantCapsAndXp(p2, BaseCaps + RarityBonus(loot[k].rarity), ClaimXp).player,
                 loot, k + 1, tEnd, simulate, band, hpRisk)

-----------------------------------------------------------------------------
(* The server: Spec *)

\* The wallets of requests: the players' and a missing one; a request without a
\* wallet is made once per endpoint.
WalletInputs == Wallets \cup {""}
\* A wallet name that players inherits from Object.prototype.
InheritedWallets == {"constructor"}
LocationInputs == LocationIds \cup {"area51", "constructor"}
\* Recipes asked of the running server: the recipes and a name that is none.
ServerRecipeInputs == DOMAIN recipes \cup {"power_fist"}
FactionInputs == {"brotherhood", "enclave"}
\* The delta asked of POST /factions/adjust: one that takes the reputation far below 0
\* (reputations above 0 come from patrol encounters, and from SpecLoot).
RepDeltas == {-1500}

\* Identifiers a client may ask to equip: those in the inventory, one that is not,
\* and the empty string.
EquipInputs(wallet) ==
    (IF wallet \in Wallets /\ players[wallet] # NoPlayer
     THEN {players[wallet].inventory[i].id : i \in 1..Len(players[wallet].inventory)}
     ELSE {}) \cup {ItemId("nuka_cola", NoStamp), ItemId("", NoStamp)}

\* Loot of the five claims a veteran player made before the model starts: three
\* scrap_metal, a duct_tape and a t45_power_armor.
VeteranLoot ==
    << locations["nukaTown"].lootTable[1], locations["nukaTown"].lootTable[1],
       locations["nukaTown"].lootTable[1], locations["vault13"].lootTable[1],
       locations["vault13"].lootTable[4] >>

\* Time of the veteran's last claim: one cooldown before the model starts.  The
\* five claims are a cooldown apart, and the first, at VeteranLastClaim -
\* 4 * COOLDOWN_MS, is not before COOLDOWN_MS, when line 310 accepts a first claim.
VeteranLastClaim == StartTime - COOLDOWN_MS

\* The veteran: a player after five claims.
Veteran(wallet, simulate) ==
    PlayerAfterClaims(NewPlayer(wallet), VeteranLoot, 1, VeteranLastClaim, simulate,
                      "none", 0)

\* Loot of the four claims of a wounded player: four scrap_metal of nukaTown.
WoundedLoot ==
    << locations["nukaTown"].lootTable[1], locations["nukaTown"].lootTable[1],
       locations["nukaTown"].lootTable[1], locations["nukaTown"].lootTable[1] >>

\* The wounded: a player after four claims at nukaTown during a Raider Skirmish,
\* each with a raider ambush.
Wounded(wallet, simulate) ==
    PlayerAfterClaims(NewPlayer(wallet), WoundedLoot, 1, VeteranLastClaim, simulate,
                      "raider", SkirmishRiskHp)

\* The server has just started (no player), or has served the claims of a veteran
\* or of a wounded player, the last one a cooldown ago.
Init ==
    /\ simulateMint \in BOOLEAN
    /\ clock = StartTime
    /\ \/ /\ players = [w \in Wallets |-> NoPlayer]
          /\ nextRef = 1
          /\ passes = [w \in Wallets |-> << >>]
       \/ /\ players = [w \in Wallets |-> Veteran(w, simulateMint)]
          /\ nextRef = Len(VeteranLoot) + 1
          /\ passes = [w \in Wallets |-> <<VeteranLastClaim>>]
       \/ /\ players = [w \in Wallets |-> Wounded(w, simulateMint)]
          /\ nextRef = Len(WoundedLoot) + 1
          /\ passes = [w \in Wallets |-> <<VeteranLastClaim>>]
    /\ adjusted = 0
    /\ claims = [r \in ReqIds |-> IdleClaim]
    /\ last = NoTurn

Next ==
    \/ Tick
    \/ \E w \in Wallets \cup InheritedWallets : GetPlayer(w)
    \/ Events
    \/ \E w \in Wallets : \E itemId \in EquipInputs(w) : Equip(w, itemId)
    \/ \E w \in WalletInputs \ Wallets : Equip(w, ItemId("nuka_cola", NoStamp))
    \/ \E w \in Wallets, recipeId \in ServerRecipeInputs : Craft(w, recipeId)
    \/ \E w \in WalletInputs \ Wallets : Craft(w, "scav_helmet")
    \/ \E w \in Wallets, f \in FactionInputs, d \in RepDeltas :
           FactionsAdjust(w, f, d)
    \/ \E w \in InheritedWallets, d \in RepDeltas : FactionsAdjust(w, "brotherhood", d)
    \/ \E r \in ReqIds, w \in Wallets, l \in LocationInputs, e \in EventNames :
           ClaimStart(r, w, l, e)
    \/ \E r \in ReqIds, w \in (WalletInputs \ Wallets) \cup InheritedWallets :
           ClaimStart(r, w, "vault13", "none")
    \/ \E r \in ReqIds, band \in EncounterBands : ClaimAfterNft(r, band)
    \/ \E r \in ReqIds, outcome \in MintOutcomes : ClaimSettled(r, outcome)
    \/ EndTurn

Spec == Init /\ [][Next]_vars

-----------------------------------------------------------------------------
(* craftItem on every inventory: SpecCraft *)

\* The loot entries a crafting inventory is drawn from, with the location of each.
CraftLoot ==
    { locations["nukaTown"].lootTable[1], locations["nukaTown"].lootTable[3],
      locations["vault13"].lootTable[1], locations["vault13"].lootTable[3] }

CraftLootSeqs == UNION { [1..n -> CraftLoot] : n \in 0..MaxCraftInv }

InitCraft ==
    /\ \E loot \in CraftLootSeqs :
          /\ players = [w \in Wallets |->
                            PlayerAfterClaims(NewPlayer(w), loot, 1,
                                              StartTime + Len(loot) * COOLDOWN_MS, TRUE,
                                              "none", 0)]
          /\ nextRef = Len(loot) + 1
          /\ passes = [w \in Wallets |->
                           IF Len(loot) = 0 THEN << >>
                           ELSE <<StartTime + Len(loot) * COOLDOWN_MS>>]
          /\ clock = StartTime + Len(loot) * COOLDOWN_MS
    /\ simulateMint = TRUE
    /\ adjusted = 0
    /\ claims = [r \in ReqIds |-> IdleClaim]
    /\ last = NoTurn

NextCraft ==
    \/ \E w \in Wallets, recipeId \in RecipeInputs :
           /\ InvLen(w) <= MaxCraftInv
           /\ Craft(w, recipeId)
    \/ EndTurn

SpecCraft == InitCraft /\ [][NextCraft]_vars

-----------------------------------------------------------------------------
(* grantCapsAndXp on every level and grant: SpecGrant *)

\* Experience a player of level lvl starts with.
StartXps(lvl) == {0, 8, 50, lvl * XpPerLevel - ClaimXp, lvl * XpPerLevel - 1}

InitGrant ==
    /\ \E lvl \in 1..MaxLvl :
       \E xp \in StartXps(lvl) :
       \E hurt \in {0, RaiderDamage} :
          players = [w \in Wallets |->
                        [NewPlayer(w) EXCEPT
                            !.lvl = lvl, !.xp = xp,
                            !.max_hp = BaseMaxHp + LevelHpStep * (lvl - 1),
                            !.hp = BaseMaxHp + LevelHpStep * (lvl - 1) - hurt]]
    /\ clock = StartTime
    /\ nextRef = 1
    /\ simulateMint = TRUE
    /\ passes = [w \in Wallets |-> << >>]
    /\ adjusted = 0
    /\ claims = [r \in ReqIds |-> IdleClaim]
    /\ last = NoTurn

NextGrant ==
    \E w \in Wallets, capsEarned \in {BaseCaps}, xpEarned \in 0..MaxXpGrant :
        GrantCall(w, capsEarned, xpEarned)

SpecGrant == InitGrant /\ [][NextGrant]_vars


-----------------------------------------------------------------------------
(* equipItem and craftItem on every inventory with gear: SpecGear *)

\* The loot entries a starting inventory is drawn from: two materials, a weapon
\* and a body armour.
GearLoot ==
    { locations["nukaTown"].lootTable[1], locations["nukaTown"].lootTable[3],
      locations["vault13"].lootTable[3], locations["vault13"].lootTable[4] }

GearLootSeqs == UNION { [1..n -> GearLoot] : n \in 0..MaxGearInv }

InitGear ==
    /\ \E loot \in GearLootSeqs :
          /\ players = [w \in Wallets |->
                            PlayerAfterClaims(NewPlayer(w), loot, 1,
                                              StartTime + Len(loot) * COOLDOWN_MS, TRUE,
                                              "none", 0)]
          /\ nextRef = Len(loot) + 1
          /\ passes = [w \in Wallets |->
                           IF Len(loot) = 0 THEN << >>
                           ELSE <<StartTime + Len(loot) * COOLDOWN_MS>>]
          /\ clock = StartTime + Len(loot) * COOLDOWN_MS
    /\ simulateMint = TRUE
    /\ adjusted = 0
    /\ claims = [r \in ReqIds |-> IdleClaim]
    /\ last = NoTurn

NextGear ==
    \/ \E w \in WalletInputs \cup InheritedWallets :
           \E itemId \in EquipInputs(w) : Equip(w, itemId)
    \/ \E w \in Wallets \cup InheritedWallets, recipeId \in ServerRecipeInputs :
           Craft(w, recipeId)
    \/ EndTurn

SpecGear == InitGear /\ [][NextGear]_vars

-----------------------------------------------------------------------------
(* rollLoot on every reputation: SpecLoot *)

\* A direct call of rollLoot(locations[locationId].lootTable, players[wallet]) with
\* Math.random() = rnd / RandDen: the entry returned, and the weights of adjusted
\* and their total (lines 50-54), in thousandths.
RollLootCall(wallet, locationId, rnd) ==
    /\ LoopIdle
    /\ players[wallet] # NoPlayer
    /\ LET lootTable == locations[locationId].lootTable
           player == players[wallet]
       IN  last' = Response("roll", wallet, [locationId |-> locationId, rnd |-> rnd],
                            player, 200,
                            [entry |-> rollLoot(lootTable, player, rnd),
                             weights |-> [i \in 1..Len(lootTable) |->
                                              AdjustedWeight(lootTable[i], player)],
                             total |-> TotalWeight(lootTable, player)])
    /\ UNCHANGED <<players, clock, simulateMint, claims, nextRef, passes, adjusted>>

InitLoot ==
    /\ \E rep \in (0 - MinRepBelow)..MaxRep :
          players = [w \in Wallets |->
                        [NewPlayer(w) EXCEPT !.factionRep.brotherhood = rep]]
    /\ clock = StartTime
    /\ nextRef = 1
    /\ simulateMint = TRUE
    /\ passes = [w \in Wallets |-> << >>]
    /\ adjusted = 0
    /\ claims = [r \in ReqIds |-> IdleClaim]
    /\ last = NoTurn

NextLoot ==
    \E w \in Wallets, l \in LocationIds, rnd \in RandomDraws : RollLootCall(w, l, rnd)

SpecLoot == InitLoot /\ [][NextLoot]_vars

-----------------------------------------------------------------------------
(* Claims about craftItem, under SpecCraft *)

\* Number of items of the inventory whose identifier is id.
Count(inventory, id) == Cardinality({i \in 1..Len(inventory) : inventory[i].id = id})

RECURSIVE RequiredFrom(_, _, _)
\* Quantity of the material mat that requires asks for (0 when it names none).
RequiredFrom(requires, mat, k) ==
    IF k > Len(requires) THEN 0
    ELSE (IF requires[k].mat = mat THEN requires[k].qty ELSE 0)
         + RequiredFrom(requires, mat, k + 1)

Required(recipeId, id) ==
    IF id.stamp = NoStamp THEN RequiredFrom(RecipeLookup(recipeId).requires, id.base, 1) ELSE 0

RECURSIVE SumRequired(_, _)
SumRequired(requires, k) ==
    IF k > Len(requires) THEN 0 ELSE requires[k].qty + SumRequired(requires, k + 1)

Materials == {"scrap_metal", "duct_tape", "rare_tech"}

\* The identifiers the claim quantifies over: those of the inventory and the materials.
IdsOf(inventory) ==
    {inventory[i].id : i \in 1..Len(inventory)} \cup {ItemId(m, NoStamp) : m \in Materials}

CraftSucceeded == last.op = "craft" /\ last.status = 200

\* C1: a successful craft removes, for every identifier, exactly the recipe's
\* required quantity of it (none of an identifier the recipe does not name) and
\* appends exactly one new item, the crafted one; the inventory is shorter by
\* sum(required quantities) - 1.
C1_CraftConsumesExactly ==
    CraftSucceeded =>
        LET pre == last.pre.inventory
            post == players[last.wallet].inventory
            kept == SubSeq(post, 1, Len(post) - 1)
        IN  /\ Len(post) >= 1
            /\ post[Len(post)] = last.body.item
            /\ \A i \in 1..Len(pre) : pre[i].ref # last.body.item.ref
            /\ \A id \in IdsOf(pre) \cup IdsOf(kept) :
                   Count(kept, id) = Count(pre, id) - Required(last.arg, id)
            /\ Len(post) = Len(pre) - (SumRequired(RecipeLookup(last.arg).requires, 1) - 1)

\* The inventory holds fewer items of some required material than the recipe asks.
Shortfall(inventory, recipeId) ==
    /\ recipeId \in DOMAIN recipes
    /\ \E k \in 1..Len(recipes[recipeId].requires) :
           Count(inventory, ItemId(recipes[recipeId].requires[k].mat, NoStamp))
               < recipes[recipeId].requires[k].qty

\* C2: a craft of a recipe that is not in the recipe set, or with fewer items of
\* some required material than required, returns an error (for a shortfall, one
\* naming a deficient material) and leaves the player as it was.
C2_CraftAtomicOnFailure ==
    (/\ last.op = "craft"
     /\ last.wallet \in Wallets
     /\ last.arg # ""
     /\ last.arg \notin DOMAIN recipes \/ Shortfall(last.pre.inventory, last.arg))
    => /\ last.status = 400
       /\ "error" \in DOMAIN last.body
       /\ players[last.wallet] = last.pre
       /\ last.arg \in DOMAIN recipes =>
              /\ last.body.error = "Missing"
              /\ Count(last.pre.inventory, ItemId(last.body.matId, NoStamp))
                     < Required(last.arg, ItemId(last.body.matId, NoStamp))

-----------------------------------------------------------------------------
(* Claims about grantCapsAndXp, under SpecGrant *)

Granted == last.op = "grant"

\* C9: after grantCapsAndXp returns, the experience is at least 0 and at most
\* level x 100 for the resulting level, whatever the starting level and the grant.
C9_XpWithinLevelThreshold ==
    Granted =>
        /\ players[last.wallet].xp >= 0
        /\ players[last.wallet].xp <= players[last.wallet].lvl * XpPerLevel

\* A grant that crossed at least two levels in one call.
C9_Witness ==
    /\ Granted
    /\ players[last.wallet].lvl >= last.pre.lvl + 2
    /\ players[last.wallet].xp > 0

\* C10: granting exactly level x 100 experience to a player with experience 0
\* makes exactly one level-up: level + 1, experience 0, max_hp + 10, hp = max_hp,
\* and leveledUp is reported.
C10_ExactThresholdOneLevelUp ==
    (Granted /\ last.pre.xp = 0 /\ last.arg.xp = last.pre.lvl * XpPerLevel) =>
        /\ players[last.wallet].lvl = last.pre.lvl + 1
        /\ players[last.wallet].xp = 0
        /\ players[last.wallet].max_hp = last.pre.max_hp + LevelHpStep
        /\ players[last.wallet].hp = players[last.wallet].max_hp
        /\ last.body.leveledUp = TRUE

\* An injured player of level 2 or more was granted exactly its threshold.
C10_Witness ==
    /\ Granted
    /\ last.pre.xp = 0
    /\ last.pre.lvl >= 2
    /\ last.arg.xp = last.pre.lvl * XpPerLevel
    /\ last.pre.hp < last.pre.max_hp
    /\ players[last.wallet].lvl = last.pre.lvl + 1

-----------------------------------------------------------------------------
(* Claims about POST /claim-survival and the player state, under Spec *)

\* The turn that just ran took a claim through the cooldown check: it was rejected
\* for cooldown or for range, or it went on to the rewards.
ClaimChecked ==
    \/ last.op = "claim" /\ last.status \in {429, 403}
    \/ last.op \in {"claim-start", "claim-throw"}

\* The commits of the wallet's claims before the claim of the turn that just ran.
PriorCommits ==
    IF last.op \in {"claim-start", "claim-throw"}
    THEN SubSeq(passes[last.wallet], 1, Len(passes[last.wallet]) - 1)
    ELSE passes[last.wallet]

\* Less than COOLDOWN_MS elapsed between the wallet's last commit and the claim.
WithinCooldown ==
    /\ PriorCommits # <<>>
    /\ last.arg.now - PriorCommits[Len(PriorCommits)] < COOLDOWN_MS

\* C3: a claim is rejected for cooldown exactly when less than COOLDOWN_MS elapsed
\* since the player's last committed claim; the rejection reports a remaining time
\* that is positive and at most COOLDOWN_MS.
C3_CooldownExact ==
    ClaimChecked =>
        /\ last.status = 429 <=> WithinCooldown
        /\ last.status = 429 =>
               /\ last.body.error = "Cooldown active"
               /\ last.body.remainingMs > 0
               /\ last.body.remainingMs <= COOLDOWN_MS
               /\ last.body.remainingMs
                      = COOLDOWN_MS - (last.arg.now - PriorCommits[Len(PriorCommits)])

\* A claim made exactly COOLDOWN_MS after the player's last commit went through
\* the check, and the next one, a tick later, was rejected with time remaining.
C3_Witness ==
    /\ last.op = "claim"
    /\ last.status = 429
    /\ last.body.remainingMs = COOLDOWN_MS - 1
    /\ Len(passes[last.wallet]) = 2
    /\ passes[last.wallet][2] - passes[last.wallet][1] = COOLDOWN_MS

\* C4: of the claims of one player, at most one per cooldown window passes the
\* cooldown check, also when they interleave: any two that passed are at least
\* COOLDOWN_MS apart, and while a claim is suspended at an await the cooldown it
\* committed is already in the player's state.
C4_OneClaimPerWindow ==
    /\ \A w \in Wallets : \A i, j \in 1..Len(passes[w]) :
           i < j => passes[w][j] - passes[w][i] >= COOLDOWN_MS
    /\ \A r \in ReqIds :
           claims[r].pc # "idle" =>
               players[claims[r].wallet].cooldowns.claim >= claims[r].now

\* While a claim waits for its settlement, a second claim of the same player, made
\* in the same window, was rejected for cooldown.
C4_Witness ==
    /\ last.op = "claim"
    /\ last.status = 429
    /\ \E r \in ReqIds :
           /\ claims[r].pc = "settle"
           /\ claims[r].wallet = last.wallet
           /\ r # last.arg.req
           /\ last.arg.now - claims[r].now < COOLDOWN_MS

\* C5: a claim rejected for cooldown or for being out of range changes nothing of
\* the player (caps, xp, level, hp, inventory, reputation, cooldown timestamp) and
\* starts no claim; after an out-of-range rejection the cooldown is not active.
C5_RejectedClaimMutatesNothing ==
    (last.op = "claim" /\ last.status \in {429, 403}) =>
        /\ players[last.wallet] = last.pre
        /\ claims[last.arg.req] = IdleClaim
        /\ last.status = 403 => ~CooldownActive(players[last.wallet], last.arg.now)

\* A player with items and a past claim was rejected for being out of range.
C5_Witness ==
    /\ last.op = "claim"
    /\ last.status = 403
    /\ last.pre.cooldowns.claim > 0
    /\ Len(last.pre.inventory) > 0

\* A handler of the turn that just ran read or wrote the wallet's player, and it
\* is not the claim r itself.
OtherInvocationTouched(r) ==
    /\ last.op \in {"claim", "claim-start", "claim-throw", "craft", "equip", "adjust"}
    /\ last.wallet = claims[r].wallet
    /\ last.pre # NoPlayer
    /\ last.op \in {"claim", "claim-start", "claim-throw"} => last.arg.req # r

\* C6: between the first read and the last write of a claim on a player, no other
\* Claim, Craft, Equip or reputation-adjust invocation for the same player reads
\* or writes that player's state.
C6_PerPlayerMutualExclusion ==
    \A r \in ReqIds : claims[r].pc \in {"nft", "settle"} => ~OtherInvocationTouched(r)

\* The claim of the turn that just ran responded after its settlement returned.
SettledResponse ==
    /\ last.op = "claim"
    /\ last.status = 200
    /\ "outcome" \in DOMAIN last.arg

\* C7: every mutation of a claim is applied before the settlement starts, and the
\* settlement's outcome changes nothing of the player: a failure is reported in the
\* response, with the reward that was granted, and nothing is rolled back.
C7_SettlementDecoupled ==
    /\ last.op = "claim-rewards" =>
           LET c == last.arg.claim
               post == players[last.wallet]
           IN  /\ claims[last.arg.req] = c
               /\ post.caps = last.pre.caps + c.capsEarned
               /\ post.cooldowns.claim >= c.now
               /\ c.loot # 0 =>
                      /\ Len(post.inventory) = Len(last.pre.inventory) + 1
                      /\ post.inventory[Len(post.inventory)] = c.lootItem
               /\ c.leveledUp <=> post.lvl > last.pre.lvl
    /\ SettledResponse =>
           /\ players[last.wallet] = last.pre
           /\ last.body.success = TRUE
           /\ last.body.capsEarned = last.arg.claim.capsEarned
           /\ last.body.player = Summary(players[last.wallet])
           /\ last.arg.outcome = "failed" <=> "error" \in DOMAIN last.body.chain

\* A claim that earned caps and an item responded after its settlement failed.
C7_Witness ==
    /\ SettledResponse
    /\ last.arg.outcome = "failed"
    /\ last.arg.claim.loot # 0
    /\ players[last.wallet].caps >= last.arg.claim.capsEarned
    /\ Len(players[last.wallet].inventory) > 0

\* C8: every player has 0 <= hp <= max_hp after every operation.
C8_HpWithinBounds ==
    \A w \in Wallets :
        players[w] # NoPlayer => players[w].hp >= 0 /\ players[w].hp <= players[w].max_hp

\* A player that levelled up to full health equipped an item that lowers max_hp:
\* its hp was clamped to the new maximum.
C8_Witness ==
    /\ last.op = "equip"
    /\ last.status = 200
    /\ last.pre.hp > players[last.wallet].max_hp
    /\ players[last.wallet].hp = players[last.wallet].max_hp

-----------------------------------------------------------------------------
(* Further claims about grantCapsAndXp, under SpecGrant *)

\* The grant was 2.5 times the threshold of the starting level, to a player with
\* experience 0.
GrantedTwoAndAHalf ==
    /\ Granted
    /\ last.pre.xp = 0
    /\ 2 * last.arg.xp = 5 * last.pre.lvl * XpPerLevel

\* C11: granting 2.5 x (L x 100) experience to a player of level L with experience
\* 0 makes exactly two level-ups: level L + 2 and max_hp + 20.
C11_TwoAndAHalfTwoLevelUps ==
    GrantedTwoAndAHalf =>
        /\ players[last.wallet].lvl = last.pre.lvl + 2
        /\ players[last.wallet].max_hp = last.pre.max_hp + 2 * LevelHpStep
        /\ players[last.wallet].hp = players[last.wallet].max_hp
        /\ last.body.leveledUp = TRUE

\* A player of level 3 was granted 750 experience and is of level 5.
C11_Witness ==
    /\ GrantedTwoAndAHalf
    /\ last.pre.lvl = MaxLvl
    /\ players[last.wallet].lvl = last.pre.lvl + 2

RECURSIVE ReferenceLoop(_)
\* The loop of the specification: while experience >= level x 100, subtract
\* level x 100, increment the level, add 10 to max_hp and set hp to max_hp.
ReferenceLoop(player) ==
    IF player.xp >= player.lvl * XpPerLevel
    THEN ReferenceLoop([player EXCEPT !.xp = @ - player.lvl * XpPerLevel,
                                      !.lvl = @ + 1,
                                      !.max_hp = @ + LevelHpStep,
                                      !.hp = player.max_hp + LevelHpStep])
    ELSE player

\* grant(player, currencyDelta, experienceDelta) of the specification.
ReferenceGrant(player, capsEarned, xpEarned) ==
    ReferenceLoop([player EXCEPT !.caps = @ + capsEarned, !.xp = @ + xpEarned])

\* C15: grantCapsAndXp leaves the level, experience, max_hp and hp that the
\* reference loop of the specification computes, whose threshold is (current
\* level) x 100 on every iteration, for every starting level and grant.
C15_GrantMatchesReferenceLoop ==
    Granted =>
        LET ref == ReferenceGrant(last.pre, last.arg.caps, last.arg.xp)
            post == players[last.wallet]
        IN  /\ post.lvl = ref.lvl
            /\ post.xp = ref.xp
            /\ post.max_hp = ref.max_hp
            /\ post.hp = ref.hp

-----------------------------------------------------------------------------
(* Claims about equipItem and gear, under SpecGear *)

\* The item object is one of the objects of the inventory.
InInventory(item, inventory) == \E i \in 1..Len(inventory) : inventory[i] = item

\* POST /equip ran equipItem for a player.
Equipped == last.op = "equip" /\ last.wallet \in Wallets /\ last.pre # NoPlayer

\* C12: equipItem leaves the inventory as it was; a failed equip (item not found,
\* or of a category that is no gear slot) changes nothing of the player; a
\* successful one changes only the slot of the item's category and the max_hp and
\* hp derived from its defense, and the item it displaced stays in the inventory.
C12_EquipFrame ==
    Equipped =>
        LET pre == last.pre
            post == players[last.wallet]
            pos == FindItem(pre.inventory, last.arg)
        IN  /\ post.inventory = pre.inventory
            /\ last.status = 400 <=>
                   (pos = 0 \/ pre.inventory[pos].type \notin GearSlots)
            /\ last.status = 400 => post = pre
            /\ last.status = 200 =>
                   LET item == pre.inventory[pos]
                       slot == item.type
                   IN  /\ last.body.slot = slot
                       /\ post.gear[slot] = item
                       /\ \A g \in GearSlots \ {slot} : post.gear[g] = pre.gear[g]
                       /\ post = [pre EXCEPT !.gear = post.gear,
                                             !.max_hp = post.max_hp,
                                             !.hp = post.hp]
                       /\ IF item.defense = 0
                          THEN post.max_hp = pre.max_hp /\ post.hp = pre.hp
                          ELSE /\ post.max_hp = BaseMaxHp + item.defense
                               /\ post.hp = Min(pre.hp, post.max_hp)
                       /\ InInventory(pre.gear[slot], pre.inventory)
                              => InInventory(pre.gear[slot], post.inventory)

\* A successful equip displaced another item of the slot, which is still in the
\* inventory.
C12_Witness ==
    /\ Equipped
    /\ last.status = 200
    /\ last.pre.gear[last.body.slot] # NoItem
    /\ last.pre.gear[last.body.slot].ref # last.body.item.ref
    /\ InInventory(last.pre.gear[last.body.slot], players[last.wallet].inventory)

-----------------------------------------------------------------------------
(* Claims about rollLoot *)

\* The turn that just ran took a claim to its loot roll (line 332).
LootRolled == last.op = "claim-start"

\* C13: whenever a claim calls rollLoot, the sum of the effective weights of the
\* location's loot table is greater than 0, for every brotherhood reputation the
\* player can have after encounters and reputation adjustments.
C13_TotalWeightPositive ==
    LootRolled =>
        TotalWeight(locations[last.arg.locationId].lootTable, players[last.wallet]) > 0

-----------------------------------------------------------------------------
(* Claims about the rewards and the event modifiers of a claim, under Spec *)

\* The turn that just ran applied the rewards of a claim (lines 346-360).
RewardsApplied ==
    \/ last.op = "claim-rewards"
    \/ last.op = "claim" /\ last.status = 200 /\ "outcome" \notin DOMAIN last.arg

\* The modifier the claim reads from the event the request names.
NamedCapsModifier ==
    IF last.arg.eventName = "Brotherhood Patrol" /\ last.arg.locationId = "vault13"
    THEN 20 ELSE 0

\* C14: a successful claim adds exactly 12 + rarityBonus + eventModifier caps
\* (rarityBonus 24 for rare loot, 60 for legendary, 0 otherwise; eventModifier 20
\* for 'Brotherhood Patrol' at vault13, 0 otherwise) and exactly 18 experience
\* before the levels are resolved.
C14_ClaimRewardExact ==
    /\ LootRolled => claims[last.arg.req].capsMod = NamedCapsModifier
    /\ RewardsApplied =>
           LET c == last.arg.claim
               pre == last.pre
               post == players[last.wallet]
               rarityBonus == IF c.loot = 0 THEN 0
                              ELSE IF c.lootItem.rarity = "legendary" THEN 60
                              ELSE IF c.lootItem.rarity = "rare" THEN 24
                              ELSE 0
           IN  /\ c.capsEarned = 12 + rarityBonus + c.capsMod
               /\ post.caps = pre.caps + c.capsEarned
               /\ IF pre.xp + 18 < pre.lvl * 100
                  THEN post.xp = pre.xp + 18 /\ post.lvl = pre.lvl /\ ~c.leveledUp
                  ELSE post.xp = pre.xp + 18 - pre.lvl * 100
                       /\ post.lvl = pre.lvl + 1 /\ c.leveledUp

\* A new player claimed a common item with no event and no encounter: caps 12,
\* experience 18, level 1.
C14_Witness ==
    /\ RewardsApplied
    /\ last.pre.lvl = 1 /\ last.pre.xp = 0 /\ last.pre.caps = 0
    /\ last.arg.claim.loot # 0
    /\ last.arg.claim.lootItem.rarity = "common"
    /\ last.arg.claim.capsMod = 0
    /\ last.arg.claim.encounter = "null"
    /\ players[last.wallet].caps = 12
    /\ players[last.wallet].xp = 18
    /\ players[last.wallet].lvl = 1

\* C16: a claim gets an event modifier (caps +20 or health risk 10) only when the
\* event it names is the active event of GET /events at the time of the claim
\* (by the parity of the UTC hour) and is at the claim's location.
C16_ModifierOnlyForActiveEvent ==
    LootRolled =>
        LET c == claims[last.arg.req]
            active == ActiveEvent(last.arg.now)
        IN  (c.capsMod > 0 \/ c.hpRisk > 0) =>
                /\ active.name = last.arg.eventName
                /\ active.locationId = last.arg.locationId

-----------------------------------------------------------------------------
(* Claims about the weights of rollLoot, under SpecLoot *)

Rolled == last.op = "roll"

\* C17: in rollLoot, the effective weight of a common or uncommon entry is its base
\* weight; that of a rare or legendary entry is at most 1.2 x its base weight, and
\* exactly 1.2 x when brotherhood reputation is 100 or more; at reputation 0 every
\* effective weight is the base weight.  (Weights in thousandths.)
C17_WeightBonusCapped ==
    Rolled =>
        LET lootTable == locations[last.arg.locationId].lootTable
            rep == last.pre.factionRep.brotherhood
        IN  \A i \in 1..Len(lootTable) :
                LET base == lootTable[i].weight
                    eff == last.body.weights[i]
                IN  /\ lootTable[i].rarity \in {"common", "uncommon"} => eff = 1000 * base
                    /\ lootTable[i].rarity \in {"rare", "legendary"} =>
                           /\ eff <= 1200 * base
                           /\ rep >= 100 => eff = 1200 * base
                    /\ rep = 0 => eff = 1000 * base

\* rollLoot returned a legendary entry to a player with reputation above 100.
C17_Witness ==
    /\ Rolled
    /\ last.pre.factionRep.brotherhood > 100
    /\ last.body.entry = 4
    /\ last.body.weights[4] = 1200 * locations[last.arg.locationId].lootTable[4].weight

-----------------------------------------------------------------------------
(* Claims about gear and health in every state *)

\* C18: every gear slot that is not empty holds an item that is in the player's
\* inventory and whose category is the slot's name, after any sequence of claims,
\* crafts and equips.
C18_GearInInventory ==
    \A w \in Wallets :
        players[w] # NoPlayer =>
            \A g \in GearSlots :
                players[w].gear[g] # NoItem =>
                    /\ InInventory(players[w].gear[g], players[w].inventory)
                    /\ players[w].gear[g].type = g

\* C19: the maximum health gained by level-ups is never lost: in every state
\* max_hp >= 100 + 10 x (level - 1), after any interleaving of level-ups and equips
\* of items with defense.
C19_LevelHealthKept ==
    \A w \in Wallets :
        players[w] # NoPlayer =>
            players[w].max_hp >= BaseMaxHp + LevelHpStep * (players[w].lvl - 1)

-----------------------------------------------------------------------------
(* Claims about the response of a claim, under Spec *)

\* The fields of a player summary that the claim names.
Snapshot(summary) ==
    [caps |-> summary.caps, lvl |-> summary.lvl, xp |-> summary.xp, hp |-> summary.hp,
     max_hp |-> summary.max_hp, inventoryCount |-> summary.inventoryCount,
     gear |-> summary.gear]

\* C20: the response of a successful claim describes that claim alone: its player
\* summary is the player right after the claim's own grant and cooldownEndsAt is
\* the claim's commit time plus COOLDOWN_MS, also when other requests for the
\* player ran while the claim waited for its settlement.
C20_ResponseDescribesOwnClaim ==
    (last.op = "claim" /\ last.status = 200) =>
        /\ Snapshot(last.body.player) = Snapshot(last.arg.claim.after)
        /\ last.body.cooldownEndsAt = last.arg.claim.now + COOLDOWN_MS

=============================================================================
